---- MODULE Spec2Model ----
(***************************************************************************)
(* Model of src/generator/generator.py (BankDataGenerator).                *)
(*                                                                         *)
(* The relational store is modelled by its COMMITTED tables.  One          *)
(* get_cursor() block is one store transaction: its statements take        *)
(* effect together at commit or not at all (rollback).  Money is counted   *)
(* in minor units (cents): 100.00 is 10000.                                *)
(***************************************************************************)
EXTENDS Integers, Sequences, FiniteSets, Bags, TLC

(* ---------------------------- bounds ----------------------------------- *)
\* GENERATOR_MAX_USERS / GENERATOR_MAX_ACCOUNTS (environment, line 35-36)
max_users == 3
max_accounts == 3
\* store transactions (get_cursor blocks) the generator opens in one run
MaxXact == 2
\* steps other writers of the store take in one run
MaxOther == 1

(* ------------------------ program constants ---------------------------- *)
Offset == 10000              \* "+ 100" of line 223, in cents
ActiveUserCount == 50        \* line 402
SavingsMasterTotal == 1000000 \* line 409: 10000 units of the amount column

StartupUsers == 10           \* line 436
StartupAccounts == 20        \* line 439
UserEvery == 10              \* line 445
AccountEvery == 20           \* line 448
StatsEvery == 100            \* line 454

Rails == {"VISA", "MIR"}
Currencies == {"USD", "EUR", "RUB", "GBP"}
AchievementNames == {"First Transaction", "Active User", "Savings Master"}
NoAcct == 0

\* values random.uniform() may return, in cents, before the offset is added
DrawSet == {100, 15000}
\* balances create_account may draw (100.00 .. 10000.00)
NewBalances == {50000}
\* balances another writer of the store may leave on an account
ExtBalances == {0}
\* balances and currencies of the accounts the store holds at start; JPY is
\* a currency the rate table of line 244 does not know
InitBalances == <<5000, 50000>>
InitCurrencies == {<<"USD", "USD">>, <<"JPY", "EUR">>}
\* currencies create_account draws in the model (line 159 draws from four)
NewCurrencies == {"USD", "GBP"}
\* lookup sets the transaction_type table may hold
TypeSets == {<<"transfer", "deposit">>, <<"transfer">>}

VARIABLES
  users,               \* store: committed user ids
  bank_accounts,       \* store: bank_account_id -> row
  payment_system,      \* store: rail -> last_number
  transactions,        \* store: committed transaction rows, in insert order
  scheduled_transfers, \* store: committed scheduled transfers
  user_achievements,   \* store: committed grants, a bag of <<user_id, name>>
  hist,                \* store: received-transaction aggregate older than the run
  seqs,                \* serial sequences (never rolled back) and step counters
  lock,                \* store: holder of each rail's row lock
  cUsers,              \* self.users
  cAccounts,           \* self.accounts
  transaction_types,   \* self.transaction_types
  payment_systems,     \* self.payment_systems
  stats,               \* self.stats
  pc,                  \* position of the generator inside an invocation
  loc,                 \* locals of the invocation in progress
  ext,                 \* another process allocating an account number
  issued,              \* account numbers in the order their rows were committed
  driver,              \* run(): position in the loop, counter, for-loop index
  last                 \* what the last step did (history variable)

vars == <<users, bank_accounts, payment_system, transactions,
          scheduled_transfers, user_achievements, hist, seqs, lock,
          cUsers, cAccounts, transaction_types, payment_systems, stats, pc,
          loc, ext, issued, driver, last>>

\* read at start, never written by the run
lookups == <<transaction_types, payment_systems, hist>>

store == <<users, bank_accounts, payment_system, transactions,
           scheduled_transfers, user_achievements>>

(* ---------------------------- helpers ---------------------------------- *)
Min(a, b) == IF a <= b THEN a ELSE b
Max(a, b) == IF a >= b THEN a ELSE b

\* f"{last_number:06d}": at least six decimal digits, zero padded
RECURSIVE Digits(_)
Digits(n) == IF n < 10 THEN <<n>> ELSE Digits(n \div 10) \o <<n % 10>>

RECURSIVE ZeroPad(_, _)
ZeroPad(s, w) == IF Len(s) >= w THEN s ELSE ZeroPad(<<0>> \o s, w)

\* f"{payment_system['payment_system']}{last_number:06d}" (line 148)
FormatNumber(rail, n) == <<rail>> \o ZeroPad(Digits(n), 6)

\* rates.get(currency, 1.0), scaled by 100 (line 244-246)
Rate(c) == CASE c = "USD" -> 100
             [] c = "EUR" -> 85
             [] c = "RUB" -> 7500
             [] c = "GBP" -> 73
             [] OTHER -> 100

\* round(n / d) to the nearest integer, a tie going to the even neighbour
RoundDiv(n, d) ==
  LET q == n \div d
      r == n % d
  IN  IF 2 * r < d THEN q
      ELSE IF 2 * r > d THEN q + 1
      ELSE IF q % 2 = 0 THEN q ELSE q + 1

\* (a bug that would cut the quotient off instead of rounding it)
ConvertTruncates(amount, from, to) == (amount * Rate(from)) \div Rate(to)

\* round(amount * from_rate / to_rate, 2) (line 247)
Convert(amount, from, to) == RoundDiv(amount * Rate(from), Rate(to))

\* converted_amount of lines 242-247
ConvertedAmount(amount, sender, receiver) ==
  IF sender # NoAcct /\ cAccounts[sender].currency # cAccounts[receiver].currency
  THEN Convert(amount, cAccounts[sender].currency, cAccounts[receiver].currency)
  ELSE amount

\* index of the first cache entry with this id, 0 if none (loops of 262, 298)
RECURSIVE FirstIndex(_, _, _)
FirstIndex(cache, id, i) ==
  IF i > Len(cache) THEN 0
  ELSE IF cache[i].id = id THEN i ELSE FirstIndex(cache, id, i + 1)

\* acc['balance'] = updated balance on the first matching entry
SetCached(cache, id, b) ==
  LET i == FirstIndex(cache, id, 1)
  IN  IF i = 0 THEN cache ELSE [cache EXCEPT ![i].balance = b]

\* locals of an invocation: sender_account, receiver_account (positions in
\* self.accounts), payment_system, owner_id, last_number
NoLoc == [sender |-> NoAcct, receiver |-> NoAcct, rail |-> "", owner |-> 0,
          read |-> 0]

\* the record kept in last: which operation stepped and how it ended
Did(op, result, error, committed) ==
  [op |-> op, result |-> result, error |-> error, committed |-> committed]

\* run() has not been entered: the operations are invoked one by one
DriverOff == [phase |-> "off", calling |-> FALSE, counter |-> 0, left |-> 0]

(* ------------------------------ Init ----------------------------------- *)
\* State after __init__ and initialize_cache() against a store that already
\* holds two users with one active account each.
Init ==
  /\ \E n \in {1, 2}, cur \in InitCurrencies, nu \in {1, 2} :
       LET row(i) == [owner |-> Min(i, nu), balance |-> InitBalances[i],
                      currency |-> cur[i], rail |-> "VISA",
                      number |-> FormatNumber("VISA", i)]
           cached(i) == [id |-> i, balance |-> row(i).balance,
                         currency |-> cur[i], number |-> row(i).number]
       IN  /\ users = 1 .. nu
           /\ cUsers = [i \in 1 .. nu |-> i]
           /\ bank_accounts = [i \in 1 .. n |-> row(i)]
           /\ cAccounts = [i \in 1 .. n |-> cached(i)]
           /\ issued = [i \in 1 .. n |-> FormatNumber("VISA", i)]
           /\ payment_system = [r \in Rails |-> IF r = "VISA" THEN n + 1 ELSE 1]
           /\ seqs = [user |-> nu + 1, account |-> n + 1, xact |-> 0,
                      other |-> 0]
  /\ payment_systems \in {<<"VISA">>, <<"VISA", "MIR">>}
  /\ transactions = <<>>
  /\ scheduled_transfers = <<>>
  /\ user_achievements = EmptyBag
  /\ hist \in {[count |-> 0, total |-> 0], [count |-> 49, total |-> 990000]}
  /\ lock = [r \in Rails |-> "free"]
  /\ transaction_types \in TypeSets
  /\ stats = [users_created |-> 0, accounts_created |-> 0,
              transactions_created |-> 0, scheduled_transfers_created |-> 0]
  /\ pc = "idle"
  /\ loc = NoLoc
  /\ ext = [pc |-> "idle", rail |-> "", read |-> 0]
  /\ driver = DriverOff
  /\ last = Did("init", "none", "none", FALSE)

(* ----------------------- generate_transaction -------------------------- *)
\* lines 206-208: fewer than two cached accounts, nothing happens
GT_Noop ==
  /\ pc = "idle"
  /\ Len(cAccounts) < 2
  /\ last' = Did("generate_transaction", "noop", "none", FALSE)
  /\ UNCHANGED <<store, seqs, lock, cUsers, cAccounts, stats, pc, loc, ext,
                 issued, lookups, driver>>

\* lines 211-217: open the cursor, pick the sender (or none) and a receiver
GT_Begin ==
  /\ pc = "idle"
  /\ Len(cAccounts) >= 2
  /\ seqs.xact < MaxXact
  /\ seqs' = [seqs EXCEPT !.xact = @ + 1]
  /\ \/ \* psycopg2.connect raises: rollback, logged at line 336
        /\ last' = Did("generate_transaction", "error", "store", FALSE)
        /\ UNCHANGED <<pc, loc>>
     \/ \E s \in 0 .. Len(cAccounts), r \in 1 .. Len(cAccounts) :
          /\ loc' = [NoLoc EXCEPT !.sender = s, !.receiver = r]
          /\ pc' = "gt_pick"
          /\ last' = Did("generate_transaction", "begin", "none", FALSE)
  /\ UNCHANGED <<store, lock, cUsers, cAccounts, stats, ext, issued,
                 lookups, driver>>

\* (a bug that would leave the comparison out, so nothing is drawn again)
SameAccountNever(s, r) == FALSE

\* the loop condition of line 219
SameAccount(s, r) == s # NoAcct /\ cAccounts[s].id = cAccounts[r].id

\* lines 219-220: draw the receiver again while it is the sender
GT_Resample ==
  /\ pc = "gt_pick"
  /\ SameAccount(loc.sender, loc.receiver)
  /\ \E r \in 1 .. Len(cAccounts) : loc' = [loc EXCEPT !.receiver = r]
  /\ last' = Did("generate_transaction", "resample", "none", FALSE)
  /\ UNCHANGED <<store, seqs, lock, cUsers, cAccounts, stats, pc, ext,
                 issued, lookups, driver>>

\* max_amount when there is no sender: round(random.uniform(10, 1000), 2)
DepositMax == {1000, 100000}

\* round(random.uniform(1, max_amount), 2): a draw between the two ends
Draws(max_amount) ==
  {d \in DrawSet : Min(100, max_amount) <= d /\ d <= Max(100, max_amount)}

\* line 222-223: the amounts one invocation may come up with
Amounts(s) ==
  IF s # NoAcct
  THEN {d + Offset : d \in Draws(cAccounts[s].balance)}
  ELSE UNION {{d + Offset : d \in Draws(m)} : m \in DepositMax}

Range(q) == {q[i] : i \in DOMAIN q}

\* (a bug that would keep the random type for a deposit)
TypeAsPicked(s, picked) == picked

\* lines 225-229: a random type, forced to deposit when there is no sender
\* and the lookup set has it
TypeFor(s, picked) ==
  IF s = NoAcct /\ "deposit" \in Range(transaction_types)
  THEN "deposit" ELSE picked

TxRow(s, r, amount, converted, type, status) ==
  [sender |-> IF s = NoAcct THEN NoAcct ELSE cAccounts[s].id,
   receiver |-> cAccounts[r].id, amount |-> amount,
   converted |-> converted, type |-> type, status |-> status]

\* (a bug that would pass the two accounts in the wrong order)
SchedRowSwapped(s, r, amount) ==
  [sender |-> cAccounts[r].id, receiver |-> cAccounts[s].id,
   amount |-> amount]

\* lines 355-370: the row create_scheduled_transfer inserts (its frequency,
\* dates and description are not modelled)
SchedRow(s, r, amount) ==
  [sender |-> cAccounts[s].id, receiver |-> cAccounts[r].id,
   amount |-> amount]

\* line 250: the sufficiency test, on the cached row of the sender
Sufficient(s, amount) == cAccounts[s].balance >= amount

\* (a bug that would lose the sign of the debit)
CreditUnsigned(table, id, delta) ==
  [table EXCEPT ![id].balance =
     table[id].balance + (IF delta < 0 THEN 0 - delta ELSE delta)]

\* UPDATE bank_accounts SET balance = balance + delta WHERE id ... on a table
Credit(table, id, delta) ==
  [table EXCEPT ![id].balance = table[id].balance + delta]

\* what the rollback of line 62 leaves of the statements run so far
\* (a bug that would leave the statements run so far in the store)
RollbackKeepsWrites(committed, working) == working

Rollback(committed, working) == committed

\* the invocation's outcome before any statement ran: an error, nothing
\* committed
GTBase ==
  [accts |-> bank_accounts, txs |-> transactions,
   sched |-> scheduled_transfers, cache |-> cAccounts, stats |-> stats,
   result |-> "error", error |-> "store", committed |-> FALSE,
   spawned |-> FALSE]

\* (a bug that would debit the sender although the funds do not suffice)
GTInsufficientDebits(s, r, amount, converted, type, f) ==
  IF f \in {"insert", "commit"} THEN GTBase
  ELSE [GTBase EXCEPT
          !.accts = IF cAccounts[s].id \in DOMAIN bank_accounts
                    THEN Credit(bank_accounts, cAccounts[s].id, 0 - amount)
                    ELSE bank_accounts,
          !.txs = Append(transactions,
                    TxRow(s, r, amount, converted, type, "failed")),
          !.result = "failed", !.error = "none", !.committed = TRUE]

\* lines 266-285: record the failure and return through the commit
GTInsufficient(s, r, amount, converted, type, f) ==
  IF f \in {"insert", "commit"} THEN GTBase
  ELSE [GTBase EXCEPT
          !.txs = Append(transactions,
                    TxRow(s, r, amount, converted, type, "failed")),
          !.result = "failed", !.error = "none", !.committed = TRUE]

\* lines 249-336.  f is the statement at which the store raises (if any),
\* spawn is random.random() < 0.05.  The result names the tables and the
\* process state the invocation leaves behind.
GTRun(s, r, amount, converted, type, f, spawn) ==
  LET sid == IF s = NoAcct THEN NoAcct ELSE cAccounts[s].id
      rid == cAccounts[r].id
      base == GTBase
      \* the debit of lines 251-265
      debitOk == s = NoAcct \/ (f # "debit" /\ sid \in DOMAIN bank_accounts)
      accts1 == IF s = NoAcct \/ ~debitOk THEN bank_accounts
                ELSE Credit(bank_accounts, sid, 0 - amount)
      cache1 == IF s = NoAcct \/ ~debitOk THEN cAccounts
                ELSE SetCached(cAccounts, sid, accts1[sid].balance)
      \* the credit of lines 287-301
      creditOk == f # "credit" /\ rid \in DOMAIN bank_accounts
      accts2 == IF creditOk THEN Credit(accts1, rid, converted) ELSE accts1
      cache2 == IF creditOk THEN SetCached(cache1, rid, accts2[rid].balance)
                ELSE cache1
      \* the insert of lines 303-322
      txs2 == Append(transactions,
                     TxRow(s, r, amount, converted, type, "completed"))
      stats2 == [stats EXCEPT !.transactions_created = @ + 1]
      \* the nested cursor of create_scheduled_transfer, lines 340-373
      sched3 == Append(scheduled_transfers, SchedRow(s, r, amount))
      stats3 == [stats2 EXCEPT !.scheduled_transfers_created = @ + 1]
  IN
  IF s # NoAcct /\ ~Sufficient(s, amount)
  THEN GTInsufficient(s, r, amount, converted, type, f)
  ELSE IF ~debitOk
  THEN [base EXCEPT !.error = IF f = "debit" THEN "store" ELSE "type"]
  ELSE IF ~creditOk
  THEN [base EXCEPT !.accts = Rollback(bank_accounts, accts1),
                    !.cache = cache1,
                    !.error = IF f = "credit" THEN "store" ELSE "type"]
  ELSE IF f = "insert"
  THEN [base EXCEPT !.accts = Rollback(bank_accounts, accts2),
                    !.cache = cache2]
  ELSE IF spawn /\ s # NoAcct
  THEN \* lines 324-327: the nested get_cursor commits (or rolls back) the
       \* whole transaction and closes the connection; the outer commit of
       \* line 58 then raises on the closed connection
       IF f = "sched"
       THEN [base EXCEPT !.accts = Rollback(bank_accounts, accts2),
                         !.cache = cache2, !.stats = stats2]
       ELSE IF f = "commit"
       THEN [base EXCEPT !.accts = Rollback(bank_accounts, accts2),
                         !.cache = cache2, !.stats = stats3]
       ELSE [base EXCEPT !.accts = accts2, !.txs = txs2, !.sched = sched3,
                         !.cache = cache2, !.stats = stats3,
                         !.error = "closed", !.committed = TRUE,
                         !.spawned = TRUE]
  ELSE IF f = "commit"
  THEN [base EXCEPT !.accts = Rollback(bank_accounts, accts2),
                    !.cache = cache2, !.stats = stats2]
  ELSE [base EXCEPT !.accts = accts2, !.txs = txs2, !.cache = cache2,
                    !.stats = stats2, !.result = "completed",
                    !.error = "none", !.committed = TRUE]

GTFailPoints == {"none", "debit", "credit", "insert", "sched", "commit"}

\* lines 222-336: amount, type, conversion, then the store statements
GT_Execute ==
  /\ pc = "gt_pick"
  /\ ~SameAccount(loc.sender, loc.receiver)
  /\ \E amount \in Amounts(loc.sender),
        picked \in Range(transaction_types),
        f \in GTFailPoints,
        spawn \in BOOLEAN :
       LET s == loc.sender
           r == loc.receiver
           type == TypeFor(s, picked)
           converted == ConvertedAmount(amount, s, r)
           out == GTRun(s, r, amount, converted, type, f, spawn)
       IN  /\ bank_accounts' = out.accts
           /\ transactions' = out.txs
           /\ scheduled_transfers' = out.sched
           /\ cAccounts' = out.cache
           /\ stats' = out.stats
           /\ last' = Did("generate_transaction", out.result, out.error,
                          out.committed)
  /\ pc' = "idle"
  /\ loc' = NoLoc
  /\ UNCHANGED <<users, payment_system, user_achievements, seqs, lock,
                 cUsers, ext, issued, lookups, driver>>

(* ----------------------------- create_user ----------------------------- *)
\* lines 102-103: the cap on cached users is reached
CU_Noop ==
  /\ pc = "idle"
  /\ Len(cUsers) >= max_users
  /\ last' = Did("create_user", "noop", "none", FALSE)
  /\ UNCHANGED <<store, seqs, lock, cUsers, cAccounts, stats, pc, loc, ext,
                 issued, lookups, driver>>

\* lines 105-128.  The id is appended to self.users and counted before
\* the commit of line 58.
create_user ==
  /\ pc = "idle"
  /\ Len(cUsers) < max_users
  /\ seqs.xact < MaxXact
  /\ \E f \in {"none", "insert", "commit"} :
       LET user_id == seqs.user IN
       IF f = "insert"
       THEN /\ last' = Did("create_user", "error", "store", FALSE)
            /\ seqs' = [seqs EXCEPT !.xact = @ + 1]
            /\ UNCHANGED <<users, cUsers, stats>>
       ELSE /\ seqs' = [seqs EXCEPT !.user = @ + 1, !.xact = @ + 1]
            /\ cUsers' = Append(cUsers, user_id)
            /\ stats' = [stats EXCEPT !.users_created = @ + 1]
            /\ IF f = "commit"
               THEN /\ users' = users
                    /\ last' = Did("create_user", "error", "store", FALSE)
               ELSE /\ users' = users \cup {user_id}
                    /\ last' = Did("create_user", "created", "none", TRUE)
  /\ UNCHANGED <<bank_accounts, payment_system, transactions,
                 scheduled_transfers, user_achievements, lock, cAccounts, pc,
                 loc, ext, issued, lookups, driver>>

(* ---------------------------- create_account --------------------------- *)
\* (a bug that would advance the rail counter before testing the cap)
CA_NoopAdvances ==
  /\ pc = "idle"
  /\ Len(cAccounts) >= max_accounts \/ cUsers = <<>>
  /\ \E rail \in Rails :
       payment_system' = [payment_system EXCEPT ![rail] = @ + 1]
  /\ last' = Did("create_account", "noop", "none", FALSE)
  /\ UNCHANGED <<users, bank_accounts, transactions, scheduled_transfers,
                 user_achievements, seqs, lock, cUsers, cAccounts, stats, pc,
                 loc, ext, issued, lookups, driver>>

\* lines 131-132: the cap on cached accounts is reached, or no cached user
CA_Noop ==
  /\ pc = "idle"
  /\ Len(cAccounts) >= max_accounts \/ cUsers = <<>>
  /\ last' = Did("create_account", "noop", "none", FALSE)
  /\ UNCHANGED <<store, seqs, lock, cUsers, cAccounts, stats, pc, loc, ext,
                 issued, lookups, driver>>

\* (a bug that would read the counter without FOR UPDATE)
CanLockUnlocked(rail) == TRUE

\* SELECT ... FOR UPDATE (line 143) waits while another transaction holds
\* the rail's row
CanLock(rail) == lock[rail] = "free"

\* lines 135-147: pick owner and rail, lock the rail's row, read the counter
CA_Begin ==
  /\ pc = "idle"
  /\ Len(cAccounts) < max_accounts /\ cUsers # <<>>
  /\ seqs.xact < MaxXact
  /\ seqs' = [seqs EXCEPT !.xact = @ + 1]
  /\ \/ \* the connection or the SELECT raises
        /\ last' = Did("create_account", "error", "store", FALSE)
        /\ UNCHANGED <<pc, loc, lock>>
     \/ \E owner \in Range(cUsers), rail \in Range(payment_systems) :
          /\ CanLock(rail)
          /\ lock' = [lock EXCEPT ![rail] = "generator"]
          /\ loc' = [NoLoc EXCEPT !.owner = owner, !.rail = rail,
                                  !.read = payment_system[rail]]
          /\ pc' = "ca_locked"
          /\ last' = Did("create_account", "begin", "none", FALSE)
  /\ UNCHANGED <<store, cUsers, cAccounts, stats, ext, issued, lookups, driver>>

CAFailPoints == {"none", "update", "insert", "link", "saving", "commit"}

\* (a bug that would commit the counter update apart from the inserts)
AdvanceCounterAlways(table, rail, aborted) == [table EXCEPT ![rail] = @ + 1]

\* the UPDATE of lines 150-156 as the end of the store transaction leaves
\* it: committed by line 58 with the inserts, or undone by line 62
AdvanceCounter(table, rail, aborted) ==
  IF aborted THEN table ELSE [table EXCEPT ![rail] = @ + 1]

\* lines 148-204: format the number, advance the counter, insert the row
\* (appended to self.accounts at line 171), link it, commit
CA_Finish ==
  /\ pc = "ca_locked"
  /\ \E f \in CAFailPoints, balance \in NewBalances, currency \in NewCurrencies,
        saving \in BOOLEAN :
       LET rail == loc.rail
           account_number == FormatNumber(rail, loc.read)
           id == seqs.account
           row == [owner |-> loc.owner, balance |-> balance,
                   currency |-> currency, rail |-> rail,
                   number |-> account_number]
           account == [id |-> id, balance |-> balance, currency |-> currency,
                       number |-> account_number]
           fails == f \in {"update", "insert", "link", "commit"}
                    \/ (f = "saving" /\ saving)
       IN  /\ IF f \in {"update", "insert"}
              THEN UNCHANGED <<seqs, cAccounts>>
              ELSE /\ seqs' = [seqs EXCEPT !.account = @ + 1]
                   /\ cAccounts' = Append(cAccounts, account)
           /\ stats' = IF f \in {"none", "commit"} \/ (f = "saving" /\ ~saving)
                       THEN [stats EXCEPT !.accounts_created = @ + 1]
                       ELSE stats
           /\ payment_system' = AdvanceCounter(payment_system, rail, fails)
           /\ IF fails
              THEN /\ UNCHANGED <<bank_accounts, issued>>
                   /\ last' = Did("create_account", "error", "store", FALSE)
              ELSE /\ bank_accounts' = bank_accounts @@ (id :> row)
                   /\ issued' = Append(issued, account_number)
                   /\ last' = Did("create_account", "created", "none", TRUE)
  /\ lock' = [lock EXCEPT ![loc.rail] = "free"]
  /\ pc' = "idle"
  /\ loc' = NoLoc
  /\ UNCHANGED <<users, transactions, scheduled_transfers, user_achievements,
                 cUsers, ext, lookups, driver>>

(* ---------------------- KeyboardInterrupt (run) ------------------------ *)
\* (a bug that would commit the open store transaction when closing)
CloseCommits(committed, working) == working

\* lines 65-69: KeyboardInterrupt is no Exception, so line 62 does not run;
\* closing the connection makes the store discard the open transaction
CloseDiscards(committed, working) == committed

\* lines 459-461: run() leaves its loop on KeyboardInterrupt
AfterInterrupt == "stopped"

\* KeyboardInterrupt inside generate_transaction.  at is the statement
\* before whose effect the interrupt arrives ("none": after the commit);
\* up to the commit the store keeps nothing, as after a store error there.
GT_Interrupt ==
  /\ pc = "gt_pick"
  /\ IF SameAccount(loc.sender, loc.receiver)
     THEN /\ last' = Did("generate_transaction", "interrupted", "interrupt",
                         FALSE)
          /\ UNCHANGED <<bank_accounts, transactions, scheduled_transfers,
                         cAccounts, stats>>
     ELSE \E amount \in Amounts(loc.sender),
             picked \in Range(transaction_types),
             at \in GTFailPoints,
             spawn \in BOOLEAN :
            LET s == loc.sender
                r == loc.receiver
                type == TypeFor(s, picked)
                converted == ConvertedAmount(amount, s, r)
                out == GTRun(s, r, amount, converted, type, at, spawn)
            IN  /\ bank_accounts' =
                     IF out.committed THEN out.accts
                     ELSE CloseDiscards(bank_accounts, out.accts)
                /\ transactions' = out.txs
                /\ scheduled_transfers' = out.sched
                /\ cAccounts' = out.cache
                /\ stats' = out.stats
                /\ last' = Did("generate_transaction", "interrupted",
                               "interrupt", out.committed)
  /\ pc' = AfterInterrupt
  /\ loc' = NoLoc
  /\ UNCHANGED <<users, payment_system, user_achievements, seqs, lock,
                 cUsers, ext, issued, lookups, driver>>

\* KeyboardInterrupt inside create_account, after the counter was read
CA_Interrupt ==
  /\ pc = "ca_locked"
  /\ \E at \in CAFailPoints, balance \in NewBalances,
        currency \in NewCurrencies :
       LET rail == loc.rail
           account_number == FormatNumber(rail, loc.read)
           id == seqs.account
           row == [owner |-> loc.owner, balance |-> balance,
                   currency |-> currency, rail |-> rail,
                   number |-> account_number]
           account == [id |-> id, balance |-> balance, currency |-> currency,
                       number |-> account_number]
           committed == at = "none"
           counter == [payment_system EXCEPT ![rail] = @ + 1]
           accounts == bank_accounts @@ (id :> row)
       IN  /\ IF at \in {"update", "insert"}
              THEN UNCHANGED <<seqs, cAccounts>>
              ELSE /\ seqs' = [seqs EXCEPT !.account = @ + 1]
                   /\ cAccounts' = Append(cAccounts, account)
           /\ stats' = IF at \in {"none", "commit"}
                       THEN [stats EXCEPT !.accounts_created = @ + 1]
                       ELSE stats
           /\ payment_system' =
                IF committed THEN counter
                ELSE CloseDiscards(payment_system, counter)
           /\ bank_accounts' =
                IF committed THEN accounts
                ELSE CloseDiscards(bank_accounts,
                                   IF at = "update" THEN bank_accounts
                                   ELSE accounts)
           /\ issued' = IF committed THEN Append(issued, account_number)
                        ELSE issued
           /\ last' = Did("create_account", "interrupted", "interrupt",
                          committed)
  /\ lock' = [lock EXCEPT ![loc.rail] = "free"]
  /\ pc' = AfterInterrupt
  /\ loc' = NoLoc
  /\ UNCHANGED <<users, transactions, scheduled_transfers, user_achievements,
                 cUsers, ext, lookups, driver>>

(* ----------------- other writers of the shared store ------------------- *)
\* another process starts the lock-read-increment protocol of lines 139-156
Ext_Begin ==
  /\ ext.pc = "idle"
  /\ seqs.other < MaxOther
  /\ \E rail \in Rails :
       /\ lock[rail] = "free"
       /\ lock' = [lock EXCEPT ![rail] = "other"]
       /\ ext' = [pc |-> "locked", rail |-> rail, read |-> payment_system[rail]]
  /\ last' = Did("ext_alloc", "begin", "none", FALSE)
  /\ UNCHANGED <<store, seqs, cUsers, cAccounts, stats, pc, loc, issued,
                 lookups, driver>>

\* ... and commits its account row, or aborts
Ext_Finish ==
  /\ ext.pc = "locked"
  /\ \/ /\ \E owner \in users :
             bank_accounts' = bank_accounts @@
               (seqs.account :>
                  [owner |-> owner, balance |-> 10000, currency |-> "USD",
                   rail |-> ext.rail,
                   number |-> FormatNumber(ext.rail, ext.read)])
        /\ seqs' = [seqs EXCEPT !.account = @ + 1, !.other = @ + 1]
        /\ payment_system' = [payment_system EXCEPT ![ext.rail] = @ + 1]
        /\ issued' = Append(issued, FormatNumber(ext.rail, ext.read))
        /\ last' = Did("ext_alloc", "created", "none", TRUE)
     \/ /\ UNCHANGED <<bank_accounts, seqs, payment_system, issued>>
        /\ last' = Did("ext_alloc", "error", "store", FALSE)
  /\ lock' = [lock EXCEPT ![ext.rail] = "free"]
  /\ ext' = [pc |-> "idle", rail |-> "", read |-> 0]
  /\ UNCHANGED <<users, transactions, scheduled_transfers, user_achievements,
                 cUsers, cAccounts, stats, pc, loc, lookups, driver>>

\* the platform under test changes the balance of an account (spec section 5)
Ext_Write ==
  /\ seqs.other < MaxOther
  /\ seqs' = [seqs EXCEPT !.other = @ + 1]
  /\ \E a \in DOMAIN bank_accounts, b \in ExtBalances :
       /\ bank_accounts[a].balance # b
       /\ bank_accounts' = [bank_accounts EXCEPT ![a].balance = b]
  /\ last' = Did("ext_write", "written", "none", TRUE)
  /\ UNCHANGED <<users, payment_system, transactions, scheduled_transfers,
                 user_achievements, lock, cUsers, cAccounts, stats, pc, loc,
                 ext, issued, lookups, driver>>

(* -------------------------- update_achievements ------------------------ *)
\* LEFT JOIN bank_accounts ba ON u.user_id = ba.owner_id (line 386)
OwnedBy(u) == {a \in DOMAIN bank_accounts : bank_accounts[a].owner = u}

\* the rows of transactions joined to user u: receiver is one of u's accounts
ReceivedBy(u) ==
  {i \in DOMAIN transactions : transactions[i].receiver \in OwnedBy(u)}

RECURSIVE SumAmounts(_)
SumAmounts(rows) ==
  IF rows = {} THEN 0
  ELSE LET i == CHOOSE j \in rows : TRUE
       IN  transactions[i].amount + SumAmounts(rows \ {i})

\* COUNT(t.transaction_id) and SUM(... t.amount ...) of lines 382-384; the
\* rows older than the run were received by account 1
tx_count(u) ==
  Cardinality(ReceivedBy(u)) + (IF 1 \in OwnedBy(u) THEN hist.count ELSE 0)

total_received(u) ==
  SumAmounts(ReceivedBy(u)) + (IF 1 \in OwnedBy(u) THEN hist.total ELSE 0)

\* HAVING COUNT(t.transaction_id) > 0 (line 389)
users_stats == {u \in users : tx_count(u) > 0}

\* (a bug that would compare with > where the rules say >=)
EarnedStrict(u) ==
  {n \in AchievementNames :
     \/ n = "First Transaction" /\ tx_count(u) > 1
     \/ n = "Active User" /\ tx_count(u) > ActiveUserCount
     \/ n = "Savings Master" /\ total_received(u) > SavingsMasterTotal}

\* the three rules of lines 395-414
Earned(u) ==
  {n \in AchievementNames :
     \/ n = "First Transaction" /\ tx_count(u) >= 1
     \/ n = "Active User" /\ tx_count(u) >= ActiveUserCount
     \/ n = "Savings Master" /\ total_received(u) >= SavingsMasterTotal}

\* (a bug that would insert without ON CONFLICT DO NOTHING)
InsertGrantAlways(table, g) == table (+) SetToBag({g})

\* INSERT ... ON CONFLICT (user_id, achievement_id) DO NOTHING
InsertGrant(table, g) ==
  IF BagIn(g, table) THEN table ELSE table (+) SetToBag({g})

RECURSIVE InsertGrants(_, _)
InsertGrants(table, gs) ==
  IF gs = {} THEN table
  ELSE LET g == CHOOSE x \in gs : TRUE
       IN  InsertGrants(InsertGrant(table, g), gs \ {g})

\* lines 378-417: one pass of the evaluator, one store transaction
update_achievements ==
  /\ pc = "idle"
  /\ seqs.xact < MaxXact
  /\ seqs' = [seqs EXCEPT !.xact = @ + 1]
  /\ \E f \in {"none", "query", "insert", "commit"} :
       LET inserts == {<<u, n>> : u \in users_stats, n \in AchievementNames}
                        \cap UNION {{<<u, n>> : n \in Earned(u)} : u \in users_stats}
           fails == f \in {"query", "commit"} \/ (f = "insert" /\ inserts # {})
       IN  IF fails
           THEN /\ user_achievements' = user_achievements
                /\ last' = Did("update_achievements", "error", "store", FALSE)
           ELSE /\ user_achievements' = InsertGrants(user_achievements, inserts)
                /\ last' = Did("update_achievements",
                               IF last.op = "update_achievements"
                                  /\ last.committed
                               THEN "again" ELSE "done", "none", TRUE)
  /\ UNCHANGED <<users, bank_accounts, payment_system, transactions,
                 scheduled_transfers, lock, cUsers, cAccounts, stats, pc,
                 loc, ext, issued, lookups, driver>>

(* -------------------------------- run ---------------------------------- *)
\* the operation run() invokes at a position of its body
OpOf(phase) ==
  CASE phase \in {"users", "user"} -> "create_user"
    [] phase \in {"accounts", "account"} -> "create_account"
    [] phase = "transaction" -> "generate_transaction"
    [] phase = "achievements" -> "update_achievements"
    [] OTHER -> "none"

\* the position after the invocation at a position has returned
AfterCall(phase) ==
  CASE phase = "user" -> "account"
    [] phase = "account" -> "transaction"
    [] phase = "transaction" -> "achievements"
    [] phase = "achievements" -> "stats"
    [] OTHER -> phase

\* what a step of run() itself leaves in last
Ran(what) == Did("run", what, "none", FALSE)

\* `if counter % 10:` (lines 445, 448, 454): true when the remainder is not 0
Due(counter, every) == counter % every # 0

\* run() has invoked op and op has not started
Invoked(op) ==
  driver.calling /\ pc = "idle" /\ last.op = "run" /\ OpOf(driver.phase) = op

\* lines 431-436: run() is entered (initialize_cache has filled the cache)
Run_Start ==
  /\ driver = DriverOff
  /\ pc = "idle"
  /\ driver' = [phase |-> "users", calling |-> FALSE, counter |-> 0,
                left |-> StartupUsers]
  /\ last' = Ran("start")
  /\ UNCHANGED <<store, seqs, lock, cUsers, cAccounts, stats, pc, loc, ext,
                 issued, lookups>>

\* lines 436-442: the heads of the two for loops, then counter = 0
Run_Startup ==
  /\ driver.phase \in {"users", "accounts"}
  /\ ~driver.calling
  /\ driver' =
       IF driver.left > 0
       THEN [driver EXCEPT !.calling = TRUE, !.left = @ - 1]
       ELSE IF driver.phase = "users"
       THEN [driver EXCEPT !.phase = "accounts", !.left = StartupAccounts]
       ELSE [driver EXCEPT !.phase = "user", !.counter = 0]
  /\ last' = Ran(IF driver.left > 0 THEN "call" ELSE "next")
  /\ UNCHANGED <<store, seqs, lock, cUsers, cAccounts, stats, pc, loc, ext,
                 issued, lookups>>

\* lines 445-449: create_user and create_account are invoked when due
Run_Tick ==
  /\ driver.phase \in {"user", "account"}
  /\ ~driver.calling
  /\ LET every == IF driver.phase = "user" THEN UserEvery ELSE AccountEvery
         due == Due(driver.counter, every)
     IN  /\ driver' = IF due THEN [driver EXCEPT !.calling = TRUE]
                      ELSE [driver EXCEPT !.phase = AfterCall(@)]
         /\ last' = Ran(IF due THEN "call" ELSE "skip")
  /\ UNCHANGED <<store, seqs, lock, cUsers, cAccounts, stats, pc, loc, ext,
                 issued, lookups>>

\* lines 451-452: generate_transaction and update_achievements, every time
Run_Invoke ==
  /\ driver.phase \in {"transaction", "achievements"}
  /\ ~driver.calling
  /\ driver' = [driver EXCEPT !.calling = TRUE]
  /\ last' = Ran("call")
  /\ UNCHANGED <<store, seqs, lock, cUsers, cAccounts, stats, pc, loc, ext,
                 issued, lookups>>

\* lines 454-455: print_stats (which only logs) when due
Run_Stats ==
  /\ driver.phase = "stats"
  /\ driver' = [driver EXCEPT !.phase = "sleep"]
  /\ last' = IF Due(driver.counter, StatsEvery)
             THEN Did("print_stats", "done", "none", FALSE)
             ELSE Ran("skip")
  /\ UNCHANGED <<store, seqs, lock, cUsers, cAccounts, stats, pc, loc, ext,
                 issued, lookups>>

\* line 457 and back to line 444: nothing in the loop assigns counter
Run_Sleep ==
  /\ driver.phase = "sleep"
  /\ driver' = [driver EXCEPT !.phase = "user"]
  /\ last' = Ran("tick")
  /\ UNCHANGED <<store, seqs, lock, cUsers, cAccounts, stats, pc, loc, ext,
                 issued, lookups>>

\* the invoked operation has returned to run()
Run_Return ==
  /\ driver.calling
  /\ pc = "idle"
  /\ last.op = OpOf(driver.phase)
  /\ driver' = [driver EXCEPT !.calling = FALSE, !.phase = AfterCall(@)]
  /\ last' = Ran("returned")
  /\ UNCHANGED <<store, seqs, lock, cUsers, cAccounts, stats, pc, loc, ext,
                 issued, lookups>>

\* the no-op conditions of lines 102, 131 and 207
NoopFor(op) ==
  CASE op = "create_user" -> Len(cUsers) >= max_users
    [] op = "create_account" -> Len(cAccounts) >= max_accounts \/ cUsers = <<>>
    [] op = "generate_transaction" -> Len(cAccounts) < 2
    [] OTHER -> FALSE

\* psycopg2.connect (line 54) raises in the invoked operation: line 62-64,
\* then the operation's handler logs and returns
Run_Refused ==
  /\ \E op \in {"create_user", "create_account", "generate_transaction",
                 "update_achievements"} :
       /\ Invoked(op)
       /\ ~NoopFor(op)
       /\ last' = Did(op, "error", "store", FALSE)
  /\ UNCHANGED <<store, seqs, lock, cUsers, cAccounts, stats, pc, loc, ext,
                 issued, lookups, driver>>

Run_create_user == Invoked("create_user") /\ CU_Noop

Run_create_account == Invoked("create_account") /\ CA_Noop

Run_generate_transaction == Invoked("generate_transaction") /\ GT_Begin

Run_update_achievements ==
  Invoked("update_achievements") /\ update_achievements

(* ------------------------------- Spec ---------------------------------- *)
\* every operation of the generator and of the other writers
Next ==
  \/ GT_Noop
  \/ GT_Begin
  \/ GT_Resample
  \/ GT_Execute
  \/ CU_Noop
  \/ create_user
  \/ CA_Noop
  \/ CA_Begin
  \/ CA_Finish
  \/ update_achievements
  \/ Ext_Begin
  \/ Ext_Finish
  \/ Ext_Write
  \/ GT_Interrupt
  \/ CA_Interrupt

Spec == Init /\ [][Next]_vars

\* The ledger: generate_transaction on a cache that create_account extends
\* (also with rows whose insert was rolled back) and on balances that other
\* writers change.
InitLedger ==
  Init /\ hist.count = 0 /\ Len(cUsers) = 1 /\ payment_systems = <<"VISA">>

NextLedger ==
  \/ GT_Begin
  \/ GT_Resample
  \/ GT_Execute
  \/ CA_Begin
  \/ CA_Finish
  \/ Ext_Write

SpecLedger == InitLedger /\ [][NextLedger]_vars

\* The population: users and accounts are created while another process
\* allocates account numbers on the same rails.
InitAlloc ==
  Init /\ hist.count = 0 /\ transaction_types = <<"transfer">>
       /\ bank_accounts[1].currency = "USD"

NextAlloc ==
  \/ GT_Noop
  \/ CU_Noop
  \/ create_user
  \/ CA_Noop
  \/ CA_Begin
  \/ CA_Finish
  \/ Ext_Begin
  \/ Ext_Finish

SpecAlloc == InitAlloc /\ [][NextAlloc]_vars

\* The evaluator: update_achievements between transactions.
InitAch ==
  Init /\ Len(cAccounts) = 2 /\ payment_systems = <<"VISA">>
       /\ transaction_types = <<"transfer", "deposit">>

NextAch ==
  \/ GT_Begin
  \/ GT_Resample
  \/ GT_Execute
  \/ update_achievements

SpecAch == InitAch /\ [][NextAch]_vars

\* The interrupted run: the ledger and the allocator under KeyboardInterrupt.
InitInterrupt ==
  Init /\ hist.count = 0 /\ Len(cUsers) = 1 /\ payment_systems = <<"VISA">>
       /\ transaction_types = <<"transfer", "deposit">>

NextInterrupt ==
  \/ GT_Begin
  \/ GT_Resample
  \/ GT_Execute
  \/ GT_Interrupt
  \/ CA_Begin
  \/ CA_Finish
  \/ CA_Interrupt

SpecInterrupt == InitInterrupt /\ [][NextInterrupt]_vars

\* The caps: a store that is empty at start, or the population of Init,
\* filled up to max_users and max_accounts.
InitEmpty ==
  /\ users = {}
  /\ cUsers = <<>>
  /\ bank_accounts = <<>>
  /\ cAccounts = <<>>
  /\ issued = <<>>
  /\ payment_system = [r \in Rails |-> 1]
  /\ seqs = [user |-> 1, account |-> 1, xact |-> 0, other |-> 0]
  /\ payment_systems = <<"VISA", "MIR">>
  /\ transactions = <<>>
  /\ scheduled_transfers = <<>>
  /\ user_achievements = EmptyBag
  /\ hist = [count |-> 0, total |-> 0]
  /\ lock = [r \in Rails |-> "free"]
  /\ transaction_types = <<"transfer", "deposit">>
  /\ stats = [users_created |-> 0, accounts_created |-> 0,
              transactions_created |-> 0, scheduled_transfers_created |-> 0]
  /\ pc = "idle"
  /\ loc = NoLoc
  /\ ext = [pc |-> "idle", rail |-> "", read |-> 0]
  /\ driver = DriverOff
  /\ last = Did("init", "none", "none", FALSE)

InitCaps == InitEmpty \/ InitAlloc

NextCaps ==
  \/ GT_Noop
  \/ GT_Begin
  \/ GT_Resample
  \/ GT_Execute
  \/ CU_Noop
  \/ create_user
  \/ CA_Noop
  \/ CA_Begin
  \/ CA_Finish

SpecCaps == InitCaps /\ [][NextCaps]_vars

\* The conversion: two accounts of one user in every pair of currencies,
\* the four of the rate table and one it does not know.
StoreCurrencies == Currencies \cup {"JPY"}

InitConvert ==
  /\ \E c1 \in StoreCurrencies, c2 \in StoreCurrencies :
       LET cur == <<c1, c2>>
           row(i) == [owner |-> 1, balance |-> InitBalances[i],
                      currency |-> cur[i], rail |-> "VISA",
                      number |-> FormatNumber("VISA", i)]
           cached(i) == [id |-> i, balance |-> row(i).balance,
                         currency |-> cur[i], number |-> row(i).number]
       IN  /\ bank_accounts = [i \in 1 .. 2 |-> row(i)]
           /\ cAccounts = [i \in 1 .. 2 |-> cached(i)]
  /\ users = {1}
  /\ cUsers = <<1>>
  /\ issued = [i \in 1 .. 2 |-> FormatNumber("VISA", i)]
  /\ payment_system = [r \in Rails |-> IF r = "VISA" THEN 3 ELSE 1]
  /\ seqs = [user |-> 2, account |-> 3, xact |-> 0, other |-> 0]
  /\ payment_systems = <<"VISA">>
  /\ transactions = <<>>
  /\ scheduled_transfers = <<>>
  /\ user_achievements = EmptyBag
  /\ hist = [count |-> 0, total |-> 0]
  /\ lock = [r \in Rails |-> "free"]
  /\ transaction_types = <<"transfer", "deposit">>
  /\ stats = [users_created |-> 0, accounts_created |-> 0,
              transactions_created |-> 0, scheduled_transfers_created |-> 0]
  /\ pc = "idle"
  /\ loc = NoLoc
  /\ ext = [pc |-> "idle", rail |-> "", read |-> 0]
  /\ driver = DriverOff
  /\ last = Did("init", "none", "none", FALSE)

NextConvert ==
  \/ GT_Begin
  \/ GT_Resample
  \/ GT_Execute

SpecConvert == InitConvert /\ [][NextConvert]_vars

\* The receiver loop under fair random choice: random.choice does not
\* return the sender for ever while another account is cached.
ResampleAway ==
  GT_Resample /\ cAccounts[loc.sender].id # cAccounts[loc'.receiver].id

InitResample == InitLedger /\ Len(cAccounts) = 2

NextResample ==
  \/ GT_Begin
  \/ GT_Resample
  \/ GT_Execute

SpecResample ==
  InitResample /\ [][NextResample]_vars /\ WF_vars(ResampleAway)

\* run() against a store that holds max_users users and max_accounts
\* accounts at start, so that create_user and create_account find their caps
\* reached.
InitRun ==
  /\ LET row(i) == [owner |-> i, balance |-> 50000, currency |-> "USD",
                    rail |-> "VISA", number |-> FormatNumber("VISA", i)]
         cached(i) == [id |-> i, balance |-> row(i).balance,
                       currency |-> "USD", number |-> row(i).number]
     IN  /\ bank_accounts = [i \in 1 .. max_accounts |-> row(i)]
         /\ cAccounts = [i \in 1 .. max_accounts |-> cached(i)]
  /\ users = 1 .. max_users
  /\ cUsers = [i \in 1 .. max_users |-> i]
  /\ issued = [i \in 1 .. max_accounts |-> FormatNumber("VISA", i)]
  /\ payment_system =
       [r \in Rails |-> IF r = "VISA" THEN max_accounts + 1 ELSE 1]
  /\ seqs = [user |-> max_users + 1, account |-> max_accounts + 1,
             xact |-> 0, other |-> 0]
  /\ payment_systems = <<"VISA">>
  /\ transactions = <<>>
  /\ scheduled_transfers = <<>>
  /\ user_achievements = EmptyBag
  /\ hist = [count |-> 0, total |-> 0]
  /\ lock = [r \in Rails |-> "free"]
  /\ transaction_types = <<"transfer", "deposit">>
  /\ stats = [users_created |-> 0, accounts_created |-> 0,
              transactions_created |-> 0, scheduled_transfers_created |-> 0]
  /\ pc = "idle"
  /\ loc = NoLoc
  /\ ext = [pc |-> "idle", rail |-> "", read |-> 0]
  /\ driver = DriverOff
  /\ last = Did("init", "none", "none", FALSE)

NextRun ==
  \/ Run_Start
  \/ Run_Startup
  \/ Run_Tick
  \/ Run_Invoke
  \/ Run_Stats
  \/ Run_Sleep
  \/ Run_Return
  \/ Run_Refused
  \/ Run_create_user
  \/ Run_create_account
  \/ Run_generate_transaction
  \/ GT_Resample
  \/ GT_Execute
  \/ Run_update_achievements

\* run() is one thread that takes its next step whenever it has one
SpecRun == InitRun /\ [][NextRun]_vars /\ WF_vars(NextRun)

(* ------------------------------ claims --------------------------------- *)
\* the step is the end of a generate_transaction invocation
GTEnds ==
  /\ last'.op = "generate_transaction"
  /\ last'.result \in {"completed", "failed", "error"}

\* the step runs the store statements of generate_transaction
GTExecutes == pc = "gt_pick" /\ GTEnds

\* the step appends one row to transactions and touches no earlier row
AppendsRow ==
  /\ Len(transactions') = Len(transactions) + 1
  /\ SubSeq(transactions', 1, Len(transactions)) = transactions

NewRow == transactions'[Len(transactions')]

LastRow == transactions[Len(transactions)]

StoreUntouched ==
  /\ bank_accounts' = bank_accounts
  /\ transactions' = transactions
  /\ scheduled_transfers' = scheduled_transfers

\* C1: in every committed store state every account's balance is >= 0,
\* whatever the generator and the other writers did before.
C1_BalanceNonNegative ==
  \A a \in DOMAIN bank_accounts : bank_accounts[a].balance >= 0

\* order of two zero-padded decimal strings
DigitsLess(x, y) ==
  \/ Len(x) < Len(y)
  \/ /\ Len(x) = Len(y)
     /\ \E i \in 1 .. Len(x) :
          x[i] < y[i] /\ \A j \in 1 .. i - 1 : x[j] = y[j]

\* C2: no two committed accounts carry the same account number, and the
\* numbers committed under one rail are strictly increasing in commit order,
\* whatever the interleaving with another process that allocates by the same
\* lock-read-increment protocol.
C2_UniqueIncreasing ==
  /\ \A a, b \in DOMAIN bank_accounts :
       a # b => bank_accounts[a].number # bank_accounts[b].number
  /\ \A i, j \in DOMAIN issued :
       (i < j /\ issued[i][1] = issued[j][1])
         => DigitsLess(Tail(issued[i]), Tail(issued[j]))

\* C2 witness: the generator has just committed an account on the rail on
\* which the other process committed one before it
C2_Witness ==
  /\ last.op = "create_account" /\ last.committed
  /\ seqs.other >= 1
  /\ Len(issued) >= 2
  /\ issued[Len(issued)][1] = issued[Len(issued) - 1][1]
  /\ \E a \in DOMAIN bank_accounts :
       /\ bank_accounts[a].number = issued[Len(issued) - 1]
       /\ \A i \in DOMAIN cAccounts : cAccounts[i].id # a

\* C3: an invocation that records a 'failed' transaction changes no balance
\* and creates no scheduled transfer; the failed row is all it commits.
C3_FailedChangesNothing ==
  [][ (GTEnds /\ (last'.result = "failed"
                  \/ (AppendsRow /\ NewRow.status = "failed")))
        => /\ AppendsRow
           /\ NewRow.status = "failed"
           /\ NewRow.sender # NoAcct
           /\ bank_accounts' = bank_accounts
           /\ scheduled_transfers' = scheduled_transfers ]_vars

\* C3 witness: a failed row was just committed
C3_Witness ==
  /\ last.op = "generate_transaction" /\ last.result = "failed"
  /\ transactions # <<>> /\ LastRow.status = "failed"

\* C4: a row with a sender is 'completed' only if the sender's store balance
\* at the debit is >= amount, and 'failed' only if it is < amount.
C4_DecidedAgainstStore ==
  [][ (GTExecutes /\ AppendsRow /\ NewRow.sender \in DOMAIN bank_accounts)
        => /\ NewRow.status = "completed"
                => bank_accounts[NewRow.sender].balance >= NewRow.amount
           /\ NewRow.status = "failed"
                => bank_accounts[NewRow.sender].balance < NewRow.amount ]_vars

\* the balances a committed row stands for: the sender (if any) pays amount,
\* the receiver gets converted, nobody else changes
RowApplied(row) ==
  /\ DOMAIN bank_accounts' = DOMAIN bank_accounts
  /\ row.receiver \in DOMAIN bank_accounts
  /\ row.sender # NoAcct => row.sender \in DOMAIN bank_accounts
  /\ row.sender # row.receiver
  /\ \A a \in DOMAIN bank_accounts :
       bank_accounts'[a] =
         [bank_accounts[a] EXCEPT !.balance =
            @ - (IF a = row.sender THEN row.amount ELSE 0)
              + (IF a = row.receiver THEN row.converted ELSE 0)]

\* C5: one invocation is all-or-nothing in the store.  Wherever it ends
\* (also on a store error at the debit, the credit, an insert or a commit),
\* it committed nothing, or it committed its row together with exactly the
\* balance changes of that row (none for a 'failed' row).
C5_AllOrNothing ==
  [][ GTEnds =>
        \/ StoreUntouched
        \/ /\ AppendsRow
           /\ IF NewRow.status = "failed"
              THEN /\ bank_accounts' = bank_accounts
                   /\ scheduled_transfers' = scheduled_transfers
              ELSE /\ RowApplied(NewRow)
                   /\ \/ scheduled_transfers' = scheduled_transfers
                      \/ scheduled_transfers' =
                           Append(scheduled_transfers,
                                  [sender |-> NewRow.sender,
                                   receiver |-> NewRow.receiver,
                                   amount |-> NewRow.amount]) ]_vars

\* C5 witness: a store error ended an invocation after its debit and credit
\* had run (the cache already shows them), and the store shows none of it
C5_Witness ==
  /\ last.op = "generate_transaction" /\ last.error = "store"
  /\ transactions = <<>>
  /\ stats.transactions_created = 1
  /\ \E i \in DOMAIN cAccounts :
       /\ cAccounts[i].id \in DOMAIN bank_accounts
       /\ cAccounts[i].balance # bank_accounts[cAccounts[i].id].balance

\* C6: an invocation that ends on its error path (line 336) committed
\* nothing: no balance change, no row, no scheduled transfer.
C6_ErrorMeansRolledBack ==
  [][ (GTEnds /\ last'.result = "error") => StoreUntouched ]_vars

\* C7: an invocation that starts with two cached accounts and meets no
\* store error appends exactly one row, 'completed' or 'failed'; rows are
\* only ever appended.
C7_OneRowPerInvocation ==
  [][ /\ (GTExecutes /\ last'.error # "store")
        => (AppendsRow /\ NewRow.status \in {"completed", "failed"})
      /\ Len(transactions') >= Len(transactions)
      /\ SubSeq(transactions', 1, Len(transactions)) = transactions ]_vars

RECURSIVE TotalBalance(_, _)
TotalBalance(table, ids) ==
  IF ids = {} THEN 0
  ELSE LET a == CHOOSE x \in ids : TRUE
       IN  table[a].balance + TotalBalance(table, ids \ {a})

\* C8: a committed 'completed' row with a sender lowers the sender's balance
\* by exactly amount, raises the receiver's by exactly converted_amount and
\* changes no other account; with equal currencies the sum of all balances
\* is unchanged.
C8_CompletedMovesExactly ==
  [][ (GTEnds /\ AppendsRow /\ NewRow.status = "completed"
         /\ NewRow.sender # NoAcct)
        => LET sender == NewRow.sender
               receiver == NewRow.receiver
           IN  /\ DOMAIN bank_accounts' = DOMAIN bank_accounts
               /\ {sender, receiver} \subseteq DOMAIN bank_accounts
               /\ bank_accounts'[sender].balance =
                    bank_accounts[sender].balance - NewRow.amount
               /\ bank_accounts'[receiver].balance =
                    bank_accounts[receiver].balance + NewRow.converted
               /\ \A a \in DOMAIN bank_accounts \ {sender, receiver} :
                    bank_accounts'[a] = bank_accounts[a]
               /\ bank_accounts[sender].currency
                    = bank_accounts[receiver].currency
                    => TotalBalance(bank_accounts', DOMAIN bank_accounts')
                         = TotalBalance(bank_accounts, DOMAIN bank_accounts)
    ]_vars

\* C8 witness: a completed transfer between two accounts of one currency
\* was just committed
C8_Witness ==
  /\ last.op = "generate_transaction" /\ last.result = "completed"
  /\ transactions # <<>>
  /\ LastRow.status = "completed" /\ LastRow.sender # NoAcct
  /\ bank_accounts[LastRow.sender].currency
       = bank_accounts[LastRow.receiver].currency

\* C9: an invocation without a sender never records 'failed' and spawns no
\* scheduled transfer; the row it commits has a null sender, status
\* 'completed', type 'deposit' whenever the lookup set has it, and
\* converted_amount = amount, and the receiver's balance rises by amount.
C9_DepositCompletes ==
  [][ (GTExecutes /\ loc.sender = NoAcct)
        => /\ last'.result # "failed"
           /\ scheduled_transfers' = scheduled_transfers
           /\ \/ StoreUntouched
              \/ /\ AppendsRow
                 /\ NewRow.sender = NoAcct
                 /\ NewRow.status = "completed"
                 /\ "deposit" \in Range(transaction_types)
                      => NewRow.type = "deposit"
                 /\ NewRow.converted = NewRow.amount
                 /\ NewRow.receiver \in DOMAIN bank_accounts
                 /\ DOMAIN bank_accounts' = DOMAIN bank_accounts
                 /\ \A a \in DOMAIN bank_accounts :
                      bank_accounts'[a] =
                        IF a = NewRow.receiver
                        THEN [bank_accounts[a] EXCEPT
                                !.balance = @ + NewRow.amount]
                        ELSE bank_accounts[a] ]_vars

\* C9 witness: a deposit row was just committed while the lookup set holds
\* other types beside 'deposit'
C9_Witness ==
  /\ last.op = "generate_transaction" /\ last.result = "completed"
  /\ transactions # <<>>
  /\ LastRow.sender = NoAcct /\ LastRow.type = "deposit"
  /\ Range(transaction_types) # {"deposit"}

AtMostOnce(table) == \A g \in BagToSet(table) : CopiesIn(g, table) = 1

NoGrantRemoved ==
  \A g \in BagToSet(user_achievements) :
    CopiesIn(g, user_achievements') >= CopiesIn(g, user_achievements)

CAEnds == pc = "ca_locked" /\ last'.op = "create_account"

CAAborts == CAEnds /\ last'.result = "error"

\* C11: a create_account whose store transaction aborts after the counter
\* was read leaves the committed counter at the value read and commits no
\* row with the formatted number; the counter moves only when an allocation
\* commits, and a committed allocation issues the number formatted from the
\* counter it finds, so the next one on that rail issues the aborted number.
C11_AbortLeavesNoGap ==
  [][ /\ CAAborts
        => /\ payment_system' = payment_system
           /\ payment_system'[loc.rail] = loc.read
           /\ bank_accounts' = bank_accounts
           /\ issued' = issued
           /\ \A a \in DOMAIN bank_accounts' :
                bank_accounts'[a].number # FormatNumber(loc.rail, loc.read)
      /\ \A r \in Rails :
           payment_system'[r] # payment_system[r]
             => /\ payment_system'[r] = payment_system[r] + 1
                /\ issued' = Append(issued, FormatNumber(r, payment_system[r]))
      /\ issued' # issued
           => \E r \in Rails :
                /\ issued' = Append(issued, FormatNumber(r, payment_system[r]))
                /\ payment_system'[r] = payment_system[r] + 1 ]_vars

\* C11 witness: an allocation aborted after its row was inserted (its number
\* is still in the cache) and a later allocation committed that same number
C11_Witness ==
  /\ last.op = "create_account" /\ last.committed
  /\ \E i, j \in DOMAIN cAccounts :
       /\ i < j
       /\ cAccounts[i].number = cAccounts[j].number
       /\ cAccounts[i].id \notin DOMAIN bank_accounts
       /\ cAccounts[j].id \in DOMAIN bank_accounts
       /\ bank_accounts[cAccounts[j].id].number = cAccounts[i].number

\* the step is a KeyboardInterrupt inside an invocation
Interrupted == last'.result = "interrupted"

\* the store shows nothing of the invocation, or its row with exactly the
\* balance changes (and the scheduled transfer) of that row
GTWholeOrNothing ==
  \/ StoreUntouched
  \/ /\ AppendsRow
     /\ IF NewRow.status = "failed"
        THEN /\ bank_accounts' = bank_accounts
             /\ scheduled_transfers' = scheduled_transfers
        ELSE /\ RowApplied(NewRow)
             /\ \/ scheduled_transfers' = scheduled_transfers
                \/ scheduled_transfers' =
                     Append(scheduled_transfers,
                            [sender |-> NewRow.sender,
                             receiver |-> NewRow.receiver,
                             amount |-> NewRow.amount])

\* the store shows nothing of the allocation, or the new row together with
\* the advanced counter
CAWholeOrNothing ==
  \/ /\ bank_accounts' = bank_accounts
     /\ payment_system' = payment_system
  \/ /\ payment_system' = [payment_system EXCEPT ![loc.rail] = @ + 1]
     /\ \E id \in DOMAIN bank_accounts' \ DOMAIN bank_accounts :
          /\ DOMAIN bank_accounts' = DOMAIN bank_accounts \cup {id}
          /\ \A a \in DOMAIN bank_accounts :
               bank_accounts'[a] = bank_accounts[a]
          /\ bank_accounts'[id].number = FormatNumber(loc.rail, loc.read)

\* C12: a KeyboardInterrupt inside generate_transaction or create_account
\* leaves the committed store with the whole unit of that invocation or with
\* nothing of it, and the generator starts no invocation afterwards.
C12_InterruptAllOrNothing ==
  [][ /\ (Interrupted /\ last'.op = "generate_transaction")
        => GTWholeOrNothing
      /\ (Interrupted /\ last'.op = "create_account") => CAWholeOrNothing
      /\ Interrupted => pc' = "stopped"
      /\ pc = "stopped" => (pc' = "stopped" /\ last' = last
                            /\ UNCHANGED <<cUsers, cAccounts, stats>>) ]_vars

\* C12 witness: the interrupt arrived after the debit and the credit had run
\* (the cache shows them); the store kept nothing and the loop has stopped
C12_Witness ==
  /\ pc = "stopped"
  /\ last.op = "generate_transaction" /\ last.result = "interrupted"
  /\ ~last.committed
  /\ transactions = <<>>
  /\ \E i \in DOMAIN cAccounts :
       /\ cAccounts[i].id \in DOMAIN bank_accounts
       /\ cAccounts[i].balance # bank_accounts[cAccounts[i].id].balance

\* the step starts an invocation of op (the generator is between invocations)
Invokes(op) == pc = "idle" /\ last'.op = op

\* C13: generate_transaction with fewer than two cached accounts,
\* create_user at the user cap and create_account at the account cap or
\* without a cached user are no-ops: no error, and store, cache and counters
\* are as before.
C13_NoopChangesNothing ==
  [][ /\ (Invokes("generate_transaction") /\ Len(cAccounts) < 2)
        => last'.result = "noop"
      /\ (Invokes("create_user") /\ Len(cUsers) >= max_users)
        => last'.result = "noop"
      /\ (Invokes("create_account")
            /\ (Len(cAccounts) >= max_accounts \/ cUsers = <<>>))
        => last'.result = "noop"
      /\ last'.result = "noop"
        => /\ last'.error = "none"
           /\ UNCHANGED <<users, bank_accounts, payment_system, transactions,
                          scheduled_transfers, user_achievements, issued,
                          lock>>
           /\ UNCHANGED <<cUsers, cAccounts, stats>> ]_vars

\* C13 witness: create_account was just a no-op at the account cap
C13_Witness ==
  /\ last.op = "create_account" /\ last.result = "noop"
  /\ Len(cAccounts) >= max_accounts
  /\ cUsers # <<>>

\* the other no-op conditions, each reached
C13_WitnessNoUser ==
  last.op = "create_account" /\ last.result = "noop" /\ cUsers = <<>>

C13_WitnessUserCap ==
  last.op = "create_user" /\ last.result = "noop" /\ Len(cUsers) >= max_users

C13_WitnessFewAccounts ==
  /\ last.op = "generate_transaction" /\ last.result = "noop"
  /\ Len(cAccounts) = 1

\* the rate table as the specification gives it, scaled by 100; a currency
\* it does not list counts as 1.0
TableRate(c) ==
  IF c \in {"USD", "EUR", "RUB", "GBP"}
  THEN [USD |-> 100, EUR |-> 85, RUB |-> 7500, GBP |-> 73][c]
  ELSE 100

\* c is n / d rounded to an integer: no integer is nearer to the quotient
RoundedQuotient(c, n, d) == 2 * (c * d - n) <= d /\ 2 * (n - c * d) <= d

RowConverted(row) ==
  LET from == bank_accounts[row.sender].currency
      to == bank_accounts[row.receiver].currency
  IN  IF row.sender # NoAcct /\ from # to
      THEN RoundedQuotient(row.converted, row.amount * TableRate(from),
                           TableRate(to))
      ELSE row.converted = row.amount

\* C14: in every transaction row, completed or failed, converted_amount is
\* amount * rate(sender currency) / rate(receiver currency) rounded to the
\* cent when the two currencies differ (an unlisted currency counting as
\* 1.0), and amount itself when they are equal or there is no sender.
C14_ConvertedByRateTable ==
  \A i \in DOMAIN transactions : RowConverted(transactions[i])

\* C14 witness: a completed and a failed row, both between a listed and an
\* unlisted currency, with a converted amount that had to be rounded
C14_Witness ==
  /\ \E i, j \in DOMAIN transactions :
       /\ transactions[i].status = "completed"
       /\ transactions[j].status = "failed"
       /\ transactions[i].sender # NoAcct
       /\ transactions[i].converted # transactions[i].amount
       /\ transactions[j].converted # transactions[j].amount
       /\ \E k \in {i, j} :
            LET row == transactions[k]
            IN  row.converted * TableRate(bank_accounts[row.receiver].currency)
                  # row.amount * TableRate(bank_accounts[row.sender].currency)
  /\ \E a \in DOMAIN bank_accounts : bank_accounts[a].currency = "JPY"

\* the scheduled transfer a transaction row may spawn
SpawnOf(row) ==
  [sender |-> row.sender, receiver |-> row.receiver, amount |-> row.amount]

\* C15: scheduled transfers come only from generate_transaction invocations
\* that had a sender and committed a 'completed' row: the table grows by
\* exactly one row, in the step that commits that row, with the row's
\* sender, receiver and amount; never with a deposit or a 'failed' row.
C15_ScheduledFromCompleted ==
  [][ /\ scheduled_transfers' # scheduled_transfers
        => /\ last'.op = "generate_transaction"
           /\ AppendsRow
           /\ NewRow.status = "completed"
           /\ NewRow.sender # NoAcct
           /\ scheduled_transfers' =
                Append(scheduled_transfers, SpawnOf(NewRow))
      /\ \A i \in DOMAIN scheduled_transfers' :
           \E j \in DOMAIN transactions' :
             /\ transactions'[j].status = "completed"
             /\ transactions'[j].sender # NoAcct
             /\ SpawnOf(transactions'[j]) = scheduled_transfers'[i] ]_vars

\* C15 witness: a scheduled transfer is committed next to its transaction,
\* while the table of transactions also holds a deposit or a failed row
C15_Witness ==
  /\ scheduled_transfers # <<>>
  /\ Len(transactions) >= 2
  /\ \E j \in DOMAIN transactions :
       transactions[j].sender = NoAcct \/ transactions[j].status = "failed"

\* C16: with no other writer of the store, whenever generate_transaction
\* has returned (completed, failed or aborted by a store error), the cached
\* balance of every cached account is that account's committed balance.
C16_CacheEqualsStore ==
  [][ GTEnds
        => \A i \in DOMAIN cAccounts' :
             cAccounts'[i].id \in DOMAIN bank_accounts'
               => cAccounts'[i].balance
                    = bank_accounts'[cAccounts'[i].id].balance ]_vars

\* C17: after every create_user and create_account invocation, aborted ones
\* included, each cached user id and each cached account is a committed row,
\* and users_created / accounts_created grew by the number of rows the
\* invocation committed.
C17_CacheIsCommitted ==
  [][ (last'.op \in {"create_user", "create_account"}
         /\ last'.result \in {"created", "error"})
        => /\ \A i \in DOMAIN cUsers' : cUsers'[i] \in users'
           /\ \A i \in DOMAIN cAccounts' :
                cAccounts'[i].id \in DOMAIN bank_accounts'
           /\ stats'.users_created - stats.users_created
                = Cardinality(users') - Cardinality(users)
           /\ stats'.accounts_created - stats.accounts_created
                = Cardinality(DOMAIN bank_accounts')
                    - Cardinality(DOMAIN bank_accounts) ]_vars

\* the receiver loop of lines 219-220 is running
Resampling == pc = "gt_pick" /\ SameAccount(loc.sender, loc.receiver)

\* C18: no transaction row has its sender as receiver, and the loop that
\* draws the receiver again while it is the sender comes to an end when a
\* second account is cached and the random choice is fair.
C18_ReceiverDiffers ==
  /\ [](\A i \in DOMAIN transactions :
          transactions[i].sender # NoAcct
            => transactions[i].sender # transactions[i].receiver)
  /\ (Resampling ~> ~Resampling)

\* C18 witness: a row with a sender was committed by an invocation whose
\* first receiver was the sender itself
C18_Witness ==
  /\ pc = "gt_pick"
  /\ last.result = "resample"
  /\ loc.sender # NoAcct
  /\ ~SameAccount(loc.sender, loc.receiver)
  /\ \E i \in DOMAIN transactions : transactions[i].sender # NoAcct

\* the transaction rows a user received: the receiver is an account the user
\* owns; the rows older than the run went to account 1
ReceivedRows(u) ==
  {i \in DOMAIN transactions :
     /\ transactions[i].receiver \in DOMAIN bank_accounts
     /\ bank_accounts[transactions[i].receiver].owner = u}

OlderRows(u) ==
  IF 1 \in DOMAIN bank_accounts /\ bank_accounts[1].owner = u
  THEN hist ELSE [count |-> 0, total |-> 0]

ReceivedCount(u) == Cardinality(ReceivedRows(u)) + OlderRows(u).count

ReceivedTotal(u) == SumAmounts(ReceivedRows(u)) + OlderRows(u).total

Holds(table, u, n) == BagIn(<<u, n>>, table)

\* C19: when a pass of update_achievements has ended without error, every
\* user with at least 1 received row holds 'First Transaction', with at least
\* 50 holds 'Active User', with a received total of at least 10000 holds
\* 'Savings Master'; a user without a received row gets no grant from it.
C19_GrantsFollowRules ==
  [][ (last'.op = "update_achievements" /\ last'.error = "none")
        => \A u \in users :
             /\ ReceivedCount(u) >= 1
                  => Holds(user_achievements', u, "First Transaction")
             /\ ReceivedCount(u) >= ActiveUserCount
                  => Holds(user_achievements', u, "Active User")
             /\ ReceivedTotal(u) >= SavingsMasterTotal
                  => Holds(user_achievements', u, "Savings Master")
             /\ ReceivedCount(u) = 0
                  => \A n \in AchievementNames :
                       CopiesIn(<<u, n>>, user_achievements')
                         = CopiesIn(<<u, n>>, user_achievements) ]_vars

\* C19 witness: a pass has just given one user all three achievements, the
\* fiftieth received row having arrived in this run, and nothing to a user
\* who received no row
C19_Witness ==
  /\ last.op = "update_achievements" /\ last.error = "none"
  /\ \E u \in users :
       /\ ReceivedCount(u) = ActiveUserCount
       /\ \A n \in AchievementNames : Holds(user_achievements, u, n)
  /\ \E u \in users :
       /\ ReceivedCount(u) = 0
       /\ \A n \in AchievementNames : ~Holds(user_achievements, u, n)

\* run() is in its while loop
InLoop ==
  driver.phase \in {"user", "account", "transaction", "achievements",
                    "stats", "sleep"}

\* the loop has just invoked op
LoopInvokes(op) == InLoop /\ driver.calling /\ OpOf(driver.phase) = op

\* C20: in the loop of run() the counter advances with every iteration, and
\* generate_transaction, update_achievements, create_user, create_account
\* and print_stats are each invoked again and again.
C20_LoopAdvances ==
  /\ [][ (driver.phase = "sleep" /\ driver'.phase = "user")
          => driver'.counter = driver.counter + 1 ]_vars
  /\ []<>LoopInvokes("generate_transaction")
  /\ []<>LoopInvokes("update_achievements")
  /\ []<>LoopInvokes("create_user")
  /\ []<>LoopInvokes("create_account")
  /\ []<>(InLoop /\ last.op = "print_stats")

====
